---- MODULE Spec2Model ----
(***************************************************************************)
(* Model of dms_variants/simulate.py: the three simulation entry points    *)
(* simulate_CodonVariantTable, simulateSampleCounts and PhenotypeSimulator *)
(* running against the two process-wide random generators                  *)
(* (`scipy.random`, called "np" below, and the standard-library `random`,  *)
(* called "py").                                                           *)
(*                                                                         *)
(* Representation.  A Python string of space-separated mutation tokens is  *)
(* a sequence of tokens; a token f"{wt}{site}{mut}" is the triple          *)
(* <<wt, site, mut>>; a nucleotide string (gene, codon, barcode) is a      *)
(* sequence of one-letter strings.  An optional value (None or x) is the   *)
(* sequence <<>> or <<x>>.  Real-valued frequency vectors are vectors of   *)
(* natural weights that are read up to normalisation.  A random draw is a  *)
(* nondeterministic choice over the values the generator can return.       *)
(***************************************************************************)
EXTENDS Integers, Sequences, FiniteSets, TLC

VARIABLES pc, entry, args, rng, call, loc, out, err

vars == <<pc, entry, args, rng, call, loc, out, err>>

(***************************************************************************)
(* Bounds of the model.                                                    *)
(***************************************************************************)
\* largest value a Poisson draw with a positive mean returns in the model
MaxPoisson == 3
\* a Dirichlet draw is a vector of natural weights summing to FreqUnits
FreqUnits == 2

(***************************************************************************)
(* Generic helpers.                                                        *)
(***************************************************************************)
None == <<>>

Some(x) == <<x>>

Range(s) == {s[i] : i \in DOMAIN s}

RECURSIVE SumSeq(_)
SumSeq(s) == IF s = <<>> THEN 0 ELSE Head(s) + SumSeq(Tail(s))

RECURSIVE Pow(_, _)
Pow(b, e) == IF e = 0 THEN 1 ELSE b * Pow(b, e - 1)

\* all sequences of k pairwise different elements of S
Arrangements(S, k) ==
    {s \in [1..k -> S] : \A i, j \in 1..k : i # j => s[i] # s[j]}

\* all vectors of n naturals summing to total
Compositions(n, total) ==
    {c \in [1..n -> 0..total] : SumSeq(c) = total}

(***************************************************************************)
(* dms_variants.constants                                                  *)
(***************************************************************************)
NTS == <<"A", "C", "G", "T">>

CODONS == {<<a, b, c>> : a \in Range(NTS), b \in Range(NTS), c \in Range(NTS)}

AAS_WITHSTOP ==
    <<"A", "C", "D", "E", "F", "G", "H", "I", "K", "L", "M",
      "N", "P", "Q", "R", "S", "T", "V", "W", "Y", "*">>

\* the standard genetic code, codons enumerated in T, C, A, G order
GeneticCode ==
    <<"F","F","L","L","S","S","S","S","Y","Y","*","*","C","C","*","W",
      "L","L","L","L","P","P","P","P","H","H","Q","Q","R","R","R","R",
      "I","I","I","M","T","T","T","T","N","N","K","K","S","S","R","R",
      "V","V","V","V","A","A","A","A","D","D","E","E","G","G","G","G">>

NtIndex(n) == CASE n = "T" -> 0 [] n = "C" -> 1 [] n = "A" -> 2 [] n = "G" -> 3

CODON_TO_AA(codon) ==
    GeneticCode[16 * NtIndex(codon[1]) + 4 * NtIndex(codon[2])
                + NtIndex(codon[3]) + 1]

(***************************************************************************)
(* The process-wide random generators.                                     *)
(***************************************************************************)
Gens == {"np", "py"}

\* a generator whose state was left by earlier, unknown use
Ambient == [origin |-> "ambient", seed |-> 0, used |-> TRUE]

\* generator.seed(s): s = <<n>> seeds with n, s = None seeds from OS entropy
Seeded(s) ==
    IF s = None THEN [origin |-> "entropy", seed |-> 0, used |-> FALSE]
    ELSE [origin |-> "seed", seed |-> s[1], used |-> FALSE]

\* the generators after the generators in gs have been seeded with s
Reseed(r, gs, s) == [g \in Gens |-> IF g \in gs THEN Seeded(s) ELSE r[g]]

\* the generators after draws have been made from the generators in gs
Advance(r, gs) ==
    [g \in Gens |-> IF g \in gs THEN [r[g] EXCEPT !.used = TRUE] ELSE r[g]]

\* bookkeeping of one call: which generators it seeded, which it drew from,
\* and whether a draw read generator state the call did not set itself
NewCall(gs) == [seeded |-> gs, drew |-> {}, tainted |-> FALSE]

Drew(c, gs) ==
    [c EXCEPT !.drew = @ \cup gs,
              !.tainted = @ \/ (gs \ c.seeded # {})]

NoLoc == [none |-> TRUE]

(***************************************************************************)
(* simulate_CodonVariantTable                                              *)
(***************************************************************************)
\* lines 66-68: `if seed is not None:` seed both generators
CVTSeedSkipsPy(seed) == IF seed # None THEN {"np"} ELSE {}

CVTSeededGens(seed) == IF seed # None THEN {"np", "py"} ELSE {}

\* lines 73-74: an int support n becomes the range (n, n)
SupportRange(vcs) == IF Len(vcs) = 1 THEN <<vcs[1], vcs[1]>> ELSE vcs

\* line 85: `10 * nvariants > len(NTS) ** bclen`
BarcodeTooShort(nvariants, bclen) == 10 * nvariants > Pow(Len(NTS), bclen)

\* line 91: ''.join(random.choices(NTS, k=bclen))
Barcodes(bclen) == [1..bclen -> Range(NTS)]

\* line 100: scipy.random.poisson(avgmuts)
Poisson(avgmuts) == IF avgmuts = 0 THEN {0} ELSE 0..MaxPoisson

\* line 102: geneseq[3 * (icodon - 1): 3 * icodon]
WtCodon(geneseq, icodon) == SubSeq(geneseq, 3 * (icodon - 1) + 1, 3 * icodon)

\* lines 104-107: one token per differing nucleotide, in enumerate order
RECURSIVE CodonTokensFrom(_, _, _, _)
CodonTokensFrom(wtcodon, mutcodon, icodon, i) ==
    IF i > 3 THEN <<>>
    ELSE (IF wtcodon[i] # mutcodon[i]
          THEN <<<<wtcodon[i], 3 * (icodon - 1) + (i - 1) + 1, mutcodon[i]>>>>
          ELSE <<>>)
         \o CodonTokensFrom(wtcodon, mutcodon, icodon, i + 1)

RECURSIVE Reverse(_)
Reverse(s) == IF s = <<>> THEN <<>> ELSE Append(Reverse(Tail(s)), Head(s))

CodonTokensReversed(wtcodon, mutcodon, icodon) ==
    Reverse(CodonTokensFrom(wtcodon, mutcodon, icodon, 1))

CodonTokens(wtcodon, mutcodon, icodon) ==
    CodonTokensFrom(wtcodon, mutcodon, icodon, 1)

\* the while condition of line 92
BarcodeCollidesNever(barcode, existing) == FALSE

BarcodeCollides(barcode, existing) == barcode \in existing

\* lines 66-80
CallCVT(a) ==
    /\ pc = "idle"
    /\ entry' = "CVT"
    /\ args' = a
    /\ rng' = Reseed(rng, CVTSeededGens(a.seed), a.seed)
    /\ call' = NewCall(CVTSeededGens(a.seed))
    /\ out' = None
    /\ IF Len(a.library_specs) < 1
       THEN /\ pc' = "error"
            /\ err' = "empty library_specs"
            /\ loc' = NoLoc
       ELSE IF Len(a.geneseq) % 3 # 0
       THEN /\ pc' = "error"
            /\ err' = "geneseq not multiple of 3"
            /\ loc' = NoLoc
       ELSE /\ pc' = "cvt_lib"
            /\ err' = "none"
            /\ loc' = [ilib |-> 1,
                       variant_call_support |-> SupportRange(a.variant_call_support),
                       genelength |-> Len(a.geneseq) \div 3,
                       ivariant |-> 0,
                       existing_barcodes |-> {},
                       barcode |-> <<>>,
                       support |-> 0,
                       sites |-> <<>>,
                       substitutions |-> <<>>,
                       rows |-> <<>>]

\* lines 81-87: head of the loop over library_specs.items()
CVT_Library ==
    /\ pc = "cvt_lib"
    /\ loc.ilib <= Len(args.library_specs)
    /\ LET specs_dict == args.library_specs[loc.ilib]
       IN IF BarcodeTooShort(specs_dict.nvariants, args.bclen)
          THEN /\ pc' = "error"
               /\ err' = "barcode too short for nvariants"
               /\ loc' = loc
          ELSE /\ pc' = "cvt_variant"
               /\ err' = err
               /\ loc' = [loc EXCEPT !.existing_barcodes = {}, !.ivariant = 0]
    /\ UNCHANGED <<entry, args, rng, call, out>>

\* lines 89-91: next variant of the library, first barcode draw
CVT_DrawBarcode ==
    /\ pc = "cvt_variant"
    /\ loc.ivariant < args.library_specs[loc.ilib].nvariants
    /\ \E barcode \in Barcodes(args.bclen) :
          loc' = [loc EXCEPT !.barcode = barcode]
    /\ pc' = "cvt_while"
    /\ rng' = Advance(rng, {"py"})
    /\ call' = Drew(call, {"py"})
    /\ UNCHANGED <<entry, args, out, err>>

\* lines 92-93: the barcode is taken, draw another
CVT_RedrawBarcode ==
    /\ pc = "cvt_while"
    /\ BarcodeCollides(loc.barcode, loc.existing_barcodes)
    /\ \E barcode \in Barcodes(args.bclen) :
          loc' = [loc EXCEPT !.barcode = barcode]
    /\ rng' = Advance(rng, {"py"})
    /\ call' = Drew(call, {"py"})
    /\ UNCHANGED <<pc, entry, args, out, err>>

\* lines 94-101: keep the barcode, draw the support, the number of mutated
\* codons and the codon positions (random.sample fails when asked for more
\* positions than the gene has codons)
CVT_StartVariant ==
    /\ pc = "cvt_while"
    /\ ~BarcodeCollides(loc.barcode, loc.existing_barcodes)
    /\ \E support \in loc.variant_call_support[1]..loc.variant_call_support[2],
          nmuts \in Poisson(args.library_specs[loc.ilib].avgmuts) :
          IF nmuts > loc.genelength
          THEN /\ pc' = "error"
               /\ err' = "sample larger than population"
               /\ loc' = [loc EXCEPT
                            !.existing_barcodes = @ \cup {loc.barcode},
                            !.support = support]
          ELSE /\ pc' = "cvt_codon"
               /\ err' = err
               /\ \E sites \in Arrangements(1..loc.genelength, nmuts) :
                     loc' = [loc EXCEPT
                               !.existing_barcodes = @ \cup {loc.barcode},
                               !.support = support,
                               !.sites = sites,
                               !.substitutions = <<>>]
    /\ rng' = Advance(rng, {"np", "py"})
    /\ call' = Drew(call, {"np", "py"})
    /\ UNCHANGED <<entry, args, out>>

\* lines 101-107: one mutated codon
CVT_MutateCodon ==
    /\ pc = "cvt_codon"
    /\ loc.sites # <<>>
    /\ LET icodon == Head(loc.sites)
           wtcodon == WtCodon(args.geneseq, icodon)
       IN \E mutcodon \in CODONS \ {wtcodon} :
             loc' = [loc EXCEPT
                       !.sites = Tail(@),
                       !.substitutions =
                           @ \o CodonTokens(wtcodon, mutcodon, icodon)]
    /\ rng' = Advance(rng, {"py"})
    /\ call' = Drew(call, {"py"})
    /\ UNCHANGED <<pc, entry, args, out, err>>

\* lines 108-113: the row of the variant
CVT_AppendRow ==
    /\ pc = "cvt_codon"
    /\ loc.sites = <<>>
    /\ loc' = [loc EXCEPT
                 !.rows = Append(@, [barcode |-> loc.barcode,
                                     substitutions |-> loc.substitutions,
                                     library |-> args.library_specs[loc.ilib].lib,
                                     variant_call_support |-> loc.support]),
                 !.ivariant = @ + 1]
    /\ pc' = "cvt_variant"
    /\ UNCHANGED <<entry, args, rng, call, out, err>>

\* line 89 exhausted: on to the next library
CVT_LibraryDone ==
    /\ pc = "cvt_variant"
    /\ loc.ivariant >= args.library_specs[loc.ilib].nvariants
    /\ loc' = [loc EXCEPT !.ilib = @ + 1]
    /\ pc' = "cvt_lib"
    /\ UNCHANGED <<entry, args, rng, call, out, err>>

\* lines 115-124: the table of all rows is handed to CodonVariantTable
CVT_Return ==
    /\ pc = "cvt_lib"
    /\ loc.ilib > Len(args.library_specs)
    /\ out' = Some(loc.rows)
    /\ pc' = "done"
    /\ UNCHANGED <<entry, args, rng, call, loc, err>>

CVTSteps ==
    \/ CVT_Library
    \/ CVT_DrawBarcode
    \/ CVT_RedrawBarcode
    \/ CVT_StartVariant
    \/ CVT_MutateCodon
    \/ CVT_AppendRow
    \/ CVT_LibraryDone
    \/ CVT_Return

(***************************************************************************)
(* simulateSampleCounts                                                    *)
(***************************************************************************)
\* random draws in [0, 1) are the values u / RandScale, u in 0..RandScale-1;
\* a probability p is the natural number p * RandScale
RandScale == 4

Uniform01 == 0..(RandScale - 1)

\* lines 224-225: `if seed is not None:` seed scipy.random
SSCSeededGens(seed) == IF seed # None THEN {"np"} ELSE {}

\* the names of the dict items of post_samples, in insertion order
SampleNamesOf(post_samples) == [i \in DOMAIN post_samples |-> post_samples[i].name]

\* Python's order on the strings used as sample names: ascending in this list
NameOrder == <<"count", "post_a", "post_b", "pre-selection">>

StrLess(a, b) ==
    \E i, j \in DOMAIN NameOrder : NameOrder[i] = a /\ NameOrder[j] = b /\ i < j

\* line 354: sorted(post_samples.items()); the keys of a dict are distinct,
\* so the order of the items is the order of their names
RECURSIVE InsertSorted(_, _)
InsertSorted(item, s) ==
    IF s = <<>> THEN <<item>>
    ELSE IF StrLess(item.name, Head(s).name) THEN <<item>> \o s
    ELSE <<Head(s)>> \o InsertSorted(item, Tail(s))

RECURSIVE SortedItems(_)
SortedItems(items) ==
    IF items = <<>> THEN <<>>
    ELSE InsertSorted(Head(items), SortedItems(Tail(items)))

UnsortedItems(items) == items

SampleOrder(items) == SortedItems(items)

\* lines 353-354: itertools.product(libraries, sorted(post_samples.items()))
Product(libraries, items) ==
    [k \in 1..(Len(libraries) * Len(items)) |->
        [lib |-> libraries[((k - 1) \div Len(items)) + 1],
         item |-> items[((k - 1) % Len(items)) + 1]]]

\* lines 238-245: the sites of `variants.sites` that carry no mutation yet
UnmutatedSites(variants, muts) ==
    SelectSeq(variants.sites, LAMBDA r : r \notin {m[2] : m \in Range(muts)})

\* lines 248-253: muts with a mutation of errorsite to mutcodon appended
AddMutation(variants, muts, errorsite, mutcodon) ==
    Append(muts, <<variants.codons[errorsite], errorsite, mutcodon>>)

\* lines 256-257: `muts = muts.pop(k); return muts`: list.pop returns the
\* element it removes, so the string returned is that one mutation (k from 1)
RemoveMutation(muts, k) == <<muts[k]>>

\* lines 232-259: what _add_variant_errors can do for one variant: return a
\* string, or raise the RuntimeError of line 247
Returned(value) == [raised |-> FALSE, value |-> value]

Raised == [raised |-> TRUE, value |-> <<>>]

AddVariantErrors(variants, variant_error_rate, codon_substitutions) ==
    LET muts == codon_substitutions
        unmutatedsites == UnmutatedSites(variants, muts)
        added == IF unmutatedsites = <<>> THEN {Raised}
                 ELSE {Returned(AddMutation(variants, muts, p[1], p[2])) :
                         p \in
                            {p \in Range(unmutatedsites) \X CODONS :
                                p[2] # variants.codons[p[1]]}}
        removed == {Returned(RemoveMutation(muts, k)) : k \in 1..Len(muts)}
        perturbed ==
            UNION {IF Len(muts) = 0 \/ 2 * u < RandScale THEN added ELSE removed :
                     u \in Uniform01}
    IN UNION {IF u < variant_error_rate THEN perturbed
              ELSE {Returned(codon_substitutions)} :
                u \in Uniform01}

\* numpy's multinomial(n, pvals) for pvals proportional to the weights w:
\* a vector of counts summing to n that gives nothing to a weight of 0
Multinomial(n, w) ==
    {c \in Compositions(Len(w), n) : \A i \in DOMAIN w : w[i] = 0 => c[i] = 0}

DirichletWeights(n) == Compositions(n, FreqUnits)

\* the positions of the rows of library lib in a table
RowsOf(df, lib) == SelectSeq([i \in DOMAIN df |-> i], LAMBDA i : df[i].library = lib)

\* line 368: scipy.clip(scipy.random.normal(1, noise), 0, None), one number
NoiseFactors(noise) == IF noise = 0 THEN {1} ELSE {0, 1, 2}

\* lines 361-369: the `noise` column of a block of n rows.  The value passed
\* to assign is the one number of line 368 (normal is called without a
\* size), which pandas gives to every row: `draws` factors were drawn
NoiseColumn(n, noise) ==
    {[draws |-> 1, column |-> [j \in 1..n |-> f]] : f \in NoiseFactors(noise)}

\* lines 346-350: the bottlenecked frequencies, as weights
BottleneckFreqs(pre_freq, bottleneck) ==
    IF bottleneck = None THEN {pre_freq}
    ELSE Multinomial(bottleneck[1], pre_freq)

\* lines 375-376: scipy.random.multinomial(sample_dict['total_count'], post_freq)
PostCountsOfBottleneck(sample_dict, post_freq) ==
    Multinomial(IF sample_dict.bottleneck = None THEN sample_dict.total_count
                ELSE sample_dict.bottleneck[1], post_freq)

PostCounts(sample_dict, post_freq) ==
    Multinomial(sample_dict.total_count, post_freq)

\* lines 334-335
RequiredColumns == {"library", "barcode", "sample", "count", "pre_freq", "phenotype"}

\* line 352
PostReqKeys == {"bottleneck", "noise", "total_count"}

\* line 309
PreReqKeys == {"uniformity", "total_count"}

\* truth value of a pandas Series of booleans: defined for one element only
SeriesTruth(series) == IF Len(series) = 1 THEN Some(series[1]) ELSE None

\* lines 224-228
CallSSC(a) ==
    /\ pc = "idle"
    /\ entry' = "SSC"
    /\ args' = a
    /\ rng' = Reseed(rng, SSCSeededGens(a.seed), a.seed)
    /\ call' = NewCall(SSCSeededGens(a.seed))
    /\ out' = None
    /\ IF a.pre_sample_name \in Range(SampleNamesOf(a.post_samples))
       THEN /\ pc' = "error"
            /\ err' = "pre_sample_name is in post_samples"
            /\ loc' = NoLoc
       ELSE /\ pc' = "ssc_errors"
            /\ err' = "none"
            /\ loc' = [barcode_variant_df |-> a.variants.barcode_variant_df,
                       columns |-> {"library", "barcode", "codon_substitutions"},
                       i |-> 1,
                       df_list |-> <<>>,
                       noise |-> <<>>,
                       noise_draws |-> 0]

\* lines 266-267: _add_variant_errors applied to the next row
SSC_AddVariantErrors ==
    /\ pc = "ssc_errors"
    /\ loc.i <= Len(loc.barcode_variant_df)
    /\ \E r \in AddVariantErrors(args.variants, args.variant_error_rate,
                                 loc.barcode_variant_df[loc.i].codon_substitutions) :
          IF r.raised
          THEN /\ pc' = "error"
               /\ err' = "variant already has all mutations"
               /\ loc' = loc
          ELSE /\ pc' = pc
               /\ err' = err
               /\ loc' = [loc EXCEPT
                            !.barcode_variant_df[loc.i].codon_substitutions = r.value,
                            !.i = @ + 1]
    /\ rng' = Advance(rng, {"np"})
    /\ call' = Drew(call, {"np"})
    /\ UNCHANGED <<entry, args, out>>

\* lines 268-273: amino-acid substitutions and phenotype of every row; the
\* phenotype function is the caller's and sees the whole row, so it can give
\* any phenotype to any row.  Line 269 names the collaborator's translation
\* as `CodonVariantTable.codonToAAMuts`, a name this file does not import;
\* it is taken here as bound to the collaborator's class.
SSC_Phenotypes ==
    /\ pc = "ssc_errors"
    /\ loc.i > Len(loc.barcode_variant_df)
    /\ \E phenotype \in [DOMAIN loc.barcode_variant_df -> args.phenotypes] :
          loc' = [loc EXCEPT
                    !.barcode_variant_df =
                        [i \in DOMAIN @ |->
                            [library |-> @[i].library,
                             barcode |-> @[i].barcode,
                             phenotype |-> phenotype[i]]],
                    !.columns = {"library", "barcode", "phenotype"},
                    !.i = 1]
    /\ pc' = "ssc_pre"
    /\ UNCHANGED <<entry, args, rng, call, out, err>>

\* lines 277-288, 308-311, 330-332: what kind of pre_sample was given
SSC_PreSample ==
    /\ pc = "ssc_pre"
    /\ LET pre_sample == args.pre_sample
       IN CASE pre_sample.kind = "DataFrame" ->
                 IF ~({"library", "barcode", "count"} \subseteq pre_sample.columns)
                 THEN /\ pc' = "error"
                      /\ err' = "pre_sample lacks cols"
                 \* line 284: `if (a != b).any():` is the truth value of a
                 \* Series with one entry per column (index, library, barcode)
                 ELSE IF SeriesTruth(<<FALSE, pre_sample.libraries_differ,
                                       pre_sample.barcodes_differ>>) = None
                 THEN /\ pc' = "error"
                      /\ err' = "truth value of a Series is ambiguous"
                 ELSE IF SeriesTruth(<<FALSE, pre_sample.libraries_differ,
                                       pre_sample.barcodes_differ>>)[1]
                 THEN /\ pc' = "error"
                      /\ err' = "pre_sample lacks library and barcode columns"
                 \* line 297: a DataFrameGroupBy has no `rename`
                 ELSE /\ pc' = "error"
                      /\ err' = "AttributeError"
            [] pre_sample.kind = "dict" ->
                 IF pre_sample.keys # PreReqKeys
                 THEN /\ pc' = "error"
                      /\ err' = "pre_sample lacks required keys"
                 ELSE /\ pc' = "ssc_prelib"
                      /\ err' = err
            [] OTHER ->
                 /\ pc' = "error"
                 /\ err' = "pre_sample not DataFrame / dict"
    /\ UNCHANGED <<entry, args, rng, call, loc, out>>

\* lines 314-327: Dirichlet frequencies and multinomial counts of one library
SSC_PreLibrary ==
    /\ pc = "ssc_prelib"
    /\ loc.i <= Len(args.variants.libraries)
    /\ LET lib == args.variants.libraries[loc.i]
           x == RowsOf(loc.barcode_variant_df, lib)
       IN \E pre_freq \in DirichletWeights(Len(x)) :
          \E count \in Multinomial(args.pre_sample.total_count, pre_freq) :
             loc' = [loc EXCEPT
                       !.df_list = Append(@,
                           [j \in DOMAIN x |->
                               [library |-> lib,
                                barcode |-> loc.barcode_variant_df[x[j]].barcode,
                                phenotype |-> loc.barcode_variant_df[x[j]].phenotype,
                                pre_freq |-> pre_freq[j],
                                count |-> count[j],
                                sample |-> args.pre_sample_name]]),
                       !.i = @ + 1]
    /\ rng' = Advance(rng, {"np"})
    /\ call' = Drew(call, {"np"})
    /\ UNCHANGED <<pc, entry, args, out, err>>

RECURSIVE Concat(_)
Concat(dfs) == IF dfs = <<>> THEN <<>> ELSE Head(dfs) \o Concat(Tail(dfs))

Project(df) ==
    [i \in DOMAIN df |-> [library |-> df[i].library, barcode |-> df[i].barcode,
                          sample |-> df[i].sample, count |-> df[i].count]]

\* lines 328-344: the pre-selection table, the check of its columns and of
\* the sample names, and the first block of the output
SSC_PreDone ==
    /\ pc = "ssc_prelib"
    /\ loc.i > Len(args.variants.libraries)
    /\ LET df == Concat(loc.df_list)
           columns == loc.columns \cup {"pre_freq", "count", "sample"}
       IN IF columns # RequiredColumns
          THEN /\ pc' = "error"
               /\ err' = "AssertionError"
               /\ loc' = loc
          ELSE IF Range(SampleNamesOf(args.post_samples)) \cap RequiredColumns # {}
          THEN /\ pc' = "error"
               /\ err' = "post_samples can't have key"
               /\ loc' = loc
          ELSE /\ pc' = "ssc_post"
               /\ err' = err
               /\ loc' = [loc EXCEPT !.barcode_variant_df = df,
                                     !.columns = columns,
                                     !.df_list = <<Project(df)>>,
                                     !.i = 1]
    /\ UNCHANGED <<entry, args, rng, call, out>>

\* lines 353-382: one (library, post-selection sample) block
SSC_PostBlock ==
    /\ pc = "ssc_post"
    /\ LET todo == Product(args.variants.libraries, SampleOrder(args.post_samples))
       IN /\ loc.i <= Len(todo)
          /\ LET lib == todo[loc.i].lib
                 sample_dict == todo[loc.i].item
                 x == RowsOf(loc.barcode_variant_df, lib)
                 pre_freq == [j \in DOMAIN x |-> loc.barcode_variant_df[x[j]].pre_freq]
                 phenotype == [j \in DOMAIN x |-> loc.barcode_variant_df[x[j]].phenotype]
             IN IF sample_dict.keys # PostReqKeys
                THEN /\ pc' = "error"
                     /\ err' = "post_samples lacks keys"
                     /\ loc' = loc
                     /\ UNCHANGED <<rng, call>>
                ELSE /\ rng' = Advance(rng, {"np"})
                     /\ call' = Drew(call, {"np"})
                     /\ \E drawn \in NoiseColumn(Len(x), sample_dict.noise) :
                        \E bottleneck_freq \in
                               BottleneckFreqs(pre_freq, sample_dict.bottleneck) :
                           LET noise == drawn.column
                               post_freq_nonorm ==
                                   [j \in DOMAIN x |->
                                       bottleneck_freq[j] * phenotype[j] * noise[j]]
                           IN IF SumSeq(post_freq_nonorm) = 0
                              \* post_freq is 0 / 0 and the multinomial rejects it
                              THEN /\ pc' = "error"
                                   /\ err' = "pvals contains NaNs"
                                   /\ loc' = [loc EXCEPT
                                                !.noise = noise,
                                                !.noise_draws = drawn.draws]
                              ELSE /\ pc' = pc
                                   /\ err' = err
                                   /\ \E count \in PostCounts(sample_dict,
                                                              post_freq_nonorm) :
                                         loc' = [loc EXCEPT
                                            !.noise = noise,
                                            !.noise_draws = drawn.draws,
                                            !.df_list = Append(@,
                                               [j \in DOMAIN x |->
                                                  [library |-> lib,
                                                   barcode |->
                                                     loc.barcode_variant_df[x[j]].barcode,
                                                   sample |-> sample_dict.name,
                                                   count |-> count[j]]]),
                                            !.i = @ + 1]
    /\ UNCHANGED <<entry, args, out>>

\* line 384
SSC_Return ==
    /\ pc = "ssc_post"
    /\ loc.i > Len(args.variants.libraries) * Len(args.post_samples)
    /\ out' = Some(Concat(loc.df_list))
    /\ pc' = "done"
    /\ UNCHANGED <<entry, args, rng, call, loc, err>>

SSCSteps ==
    \/ SSC_AddVariantErrors
    \/ SSC_Phenotypes
    \/ SSC_PreSample
    \/ SSC_PreLibrary
    \/ SSC_PreDone
    \/ SSC_PostBlock
    \/ SSC_Return

(***************************************************************************)
(* PhenotypeSimulator                                                      *)
(***************************************************************************)
\* line 436: scipy.random.seed(seed), whatever seed is
PSSeededGens(seed) == {"np"}

\* line 438: scipy.cumsum(weights)
CumWeights(norm_weights) ==
    [i \in DOMAIN norm_weights |->
        SumSeq([j \in 1..i |-> norm_weights[j].weight])]

\* numpy's argmin of a vector of booleans, counted from 1: the first FALSE,
\* and the first element when there is none
ArgMinElseLast(bools) ==
    IF \E i \in DOMAIN bools : ~bools[i]
    THEN CHOOSE i \in DOMAIN bools :
            ~bools[i] /\ \A j \in DOMAIN bools : ~bools[j] => i <= j
    ELSE Len(bools)

ArgMin(bools) ==
    IF \E i \in DOMAIN bools : ~bools[i]
    THEN CHOOSE i \in DOMAIN bools :
            ~bools[i] /\ \A j \in DOMAIN bools : ~bools[j] => i <= j
    ELSE 1

\* line 447: scipy.argmin(cumweights < scipy.random.rand()), for the draw
\* u / RandScale and weights in units of 1 / RandScale
ChooseGaussian(cumweights, u) ==
    ArgMin([i \in DOMAIN cumweights |-> cumweights[i] < u])

\* line 449: scipy.random.normal(mean, sd)
Normal(mean, sd) == IF sd = 0 THEN {mean} ELSE {mean - sd, mean, mean + sd}

\* line 440
WtAA(geneseq, icodon) == CODON_TO_AA(SubSeq(geneseq, 3 * icodon + 1, 3 * icodon + 3))

\* lines 447-449: the draw u, the component chosen for it (counted from 1)
\* and the effect drawn from that component
DrawnEffects(a) ==
    UNION {LET i == ChooseGaussian(CumWeights(a.norm_weights), u)
           IN {[i |-> i, u |-> u, muteffect |-> e] :
                 e \in Normal(a.norm_weights[i].mean, a.norm_weights[i].sd)} :
           u \in Uniform01}

\* lines 443-449: the effects a mutation to mut_aa can be given (component 0
\* stands for the stop, which draws nothing)
MutEffectsStopDrawn(a, mut_aa) == DrawnEffects(a)

MutEffects(a, mut_aa) ==
    IF mut_aa = "*"
    THEN {[i |-> 0, u |-> 0, muteffect |-> a.stop_effect]}
    ELSE DrawnEffects(a)

\* lines 432-438
CallPS(a) ==
    /\ pc = "idle"
    /\ entry' = "PS"
    /\ args' = a
    /\ rng' = Reseed(rng, PSSeededGens(a.seed), a.seed)
    /\ call' = NewCall(PSSeededGens(a.seed))
    /\ out' = None
    /\ pc' = "ps_build"
    /\ err' = "none"
    /\ loc' = [wt_latent |-> a.wt_latent,
               muteffects |-> <<>>,
               icodon |-> 0,
               iaa |-> 1,
               i |-> 0,
               u |-> 0,
               ret |-> None]

\* lines 439-450: one (codon, amino acid) pair of the two loops
PS_MutEffect ==
    /\ pc = "ps_build"
    /\ loc.icodon < Len(args.geneseq) \div 3
    /\ LET wt_aa == WtAA(args.geneseq, loc.icodon)
           mut_aa == AAS_WITHSTOP[loc.iaa]
           last == loc.iaa = Len(AAS_WITHSTOP)
           icodon == IF last THEN loc.icodon + 1 ELSE loc.icodon
           iaa == IF last THEN 1 ELSE loc.iaa + 1
       IN IF mut_aa = wt_aa
          THEN /\ loc' = [loc EXCEPT !.icodon = icodon, !.iaa = iaa]
               /\ UNCHANGED <<rng, call>>
          ELSE /\ \E m \in MutEffects(args, mut_aa) :
                     loc' = [loc EXCEPT
                               !.icodon = icodon,
                               !.iaa = iaa,
                               !.i = m.i,
                               !.u = m.u,
                               !.muteffects =
                                   (<<wt_aa, loc.icodon + 1, mut_aa>> :> m.muteffect)
                                   @@ @]
               /\ IF mut_aa = "*"
                  THEN UNCHANGED <<rng, call>>
                  ELSE /\ rng' = Advance(rng, {"np"})
                       /\ call' = Drew(call, {"np"})
    /\ UNCHANGED <<pc, entry, args, out, err>>

\* the constructor returns the object
PS_Return ==
    /\ pc = "ps_build"
    /\ loc.icodon >= Len(args.geneseq) \div 3
    /\ out' = Some([wt_latent |-> loc.wt_latent, muteffects |-> loc.muteffects])
    /\ pc' = "done"
    /\ UNCHANGED <<entry, args, rng, call, loc, err>>

\* lines 460-461: wt_latent + sum of muteffects[m]; a missing key raises
LatentOf(self, aa_substitutions) ==
    IF \A i \in DOMAIN aa_substitutions : aa_substitutions[i] \in DOMAIN self.muteffects
    THEN Some(self.wt_latent
              + SumSeq([i \in DOMAIN aa_substitutions |->
                           self.muteffects[aa_substitutions[i]]]))
    ELSE None

\* lines 452-461
LatentPhenotype(v) ==
    /\ pc = "done"
    /\ entry = "PS"
    /\ LET latent == LatentOf(out[1], v)
       IN IF latent = None
          THEN loc' = [loc EXCEPT !.ret = <<"KeyError">>]
          ELSE loc' = [loc EXCEPT !.ret = <<"latent", latent[1]>>]
    /\ UNCHANGED <<pc, entry, args, rng, call, out, err>>

\* lines 463-470: the value 1 / (1 + exp(-latent - 3)) is kept symbolically
ObservedPhenotype(v) ==
    /\ pc = "done"
    /\ entry = "PS"
    /\ LET latent == LatentOf(out[1], v)
       IN IF latent = None
          THEN loc' = [loc EXCEPT !.ret = <<"KeyError">>]
          ELSE loc' = [loc EXCEPT !.ret = <<"sigmoid", latent[1]>>]
    /\ UNCHANGED <<pc, entry, args, rng, call, out, err>>

(***************************************************************************)
(* The inputs of the calls.                                                *)
(***************************************************************************)
GeneM == <<"A", "T", "G">>

GeneMA == <<"A", "T", "G", "G", "C", "A">>

GeneMStop == <<"A", "T", "G", "T", "A", "A">>

GeneRagged == <<"A", "T", "G", "G">>

Lib(lib, nvariants, avgmuts) ==
    [lib |-> lib, nvariants |-> nvariants, avgmuts |-> avgmuts]

CVTArgs(geneseq, bclen, library_specs, seed, variant_call_support) ==
    [geneseq |-> geneseq, bclen |-> bclen, library_specs |-> library_specs,
     seed |-> seed, variant_call_support |-> variant_call_support]

\* calls that end early or draw little
CVTSmallInputs ==
    {CVTArgs(GeneM, 2, <<>>, seed, <<1>>) : seed \in {None, Some(1)}}
    \cup {CVTArgs(GeneRagged, 2, <<Lib("lib_1", 1, 0)>>, Some(1), <<1>>)}
    \cup {CVTArgs(GeneM, 1, <<Lib("lib_1", 0, 0), Lib("lib_2", 1, 0)>>, seed, <<1>>) :
            seed \in {None, Some(1)}}
    \cup {CVTArgs(GeneM, 2, <<Lib("lib_1", 1, 0), Lib("lib_2", 2, 0)>>,
                  Some(1), <<1>>)}
    \cup {CVTArgs(GeneM, 2, <<Lib("lib_1", 1, 1)>>, seed, <<1>>) :
            seed \in {None, Some(1)}}
    \cup {CVTArgs(GeneM, 3, <<Lib("lib_1", 2, 0)>>, Some(1), <<1>>)}

\* calls that fill libraries with barcodes and mutations
CVTLargeInputs ==
    {CVTArgs(GeneM, 3, <<Lib("lib_1", 2, 0), Lib("lib_2", 0, 0)>>, Some(1), <<1>>),
     CVTArgs(GeneM, 2, <<Lib("lib_1", 1, 0), Lib("lib_2", 1, 0)>>, None, <<1, 2>>),
     CVTArgs(GeneMA, 2, <<Lib("lib_1", 1, 1)>>, Some(1), <<1>>)}

CVTInputs == CVTSmallInputs \cup CVTLargeInputs

\* the collaborator's view of a variant table over GeneMA
Variants(libraries, barcode_variant_df) ==
    [libraries |-> libraries,
     sites |-> <<1, 2>>,
     codons |-> <<WtCodon(GeneMA, 1), WtCodon(GeneMA, 2)>>,
     barcode_variant_df |-> barcode_variant_df]

Row(library, barcode, codon_substitutions) ==
    [library |-> library, barcode |-> barcode,
     codon_substitutions |-> codon_substitutions]

Mut1 == <<WtCodon(GeneMA, 1), 1, <<"C", "T", "G">>>>

Mut2 == <<WtCodon(GeneMA, 2), 2, <<"G", "G", "A">>>>

BcAA == <<"A", "A">>

BcAC == <<"A", "C">>

\* one library: an unmutated variant and a variant with one mutation
VariantsOneLib ==
    Variants(<<"lib_1">>, <<Row("lib_1", BcAA, <<>>), Row("lib_1", BcAC, <<Mut1>>)>>)

\* two libraries of one singly mutated variant each
VariantsTwoLibs ==
    Variants(<<"lib_1", "lib_2">>,
             <<Row("lib_1", BcAA, <<Mut1>>), Row("lib_2", BcAA, <<Mut2>>)>>)

\* two libraries, of two variants and of one
VariantsUneven ==
    Variants(<<"lib_1", "lib_2">>,
             <<Row("lib_1", BcAA, <<>>), Row("lib_1", BcAC, <<>>),
               Row("lib_2", BcAA, <<>>)>>)

\* one variant mutated at every site
VariantsFull == Variants(<<"lib_1">>, <<Row("lib_1", BcAA, <<Mut1, Mut2>>)>>)

PreDict(keys, total_count) ==
    [kind |-> "dict", keys |-> keys, total_count |-> total_count, uniformity |-> 5]

\* a table of counts for the (library, barcode) pairs of the variant table
PreTable(columns, counts) ==
    [kind |-> "DataFrame", columns |-> columns, counts |-> counts,
     libraries_differ |-> FALSE, barcodes_differ |-> FALSE]

PostSample(name, keys, total_count, noise, bottleneck) ==
    [name |-> name, keys |-> keys, total_count |-> total_count,
     noise |-> noise, bottleneck |-> bottleneck]

SSCArgs(variants, variant_error_rate, pre_sample, post_samples, seed) ==
    [variants |-> variants, phenotypes |-> {0, 1},
     variant_error_rate |-> variant_error_rate, pre_sample |-> pre_sample,
     post_samples |-> post_samples, pre_sample_name |-> "pre-selection",
     seed |-> seed]

PostAB ==
    <<PostSample("post_b", PostReqKeys, 2, 0, None),
      PostSample("post_a", PostReqKeys, 1, 0, None)>>

\* calls that raise
SSCErrorInputs ==
    {SSCArgs(VariantsTwoLibs, 0, PreDict(PreReqKeys, 1),
             <<PostSample("pre-selection", PostReqKeys, 1, 0, None)>>, seed) :
        seed \in {None, Some(1)}}
    \cup {SSCArgs(VariantsTwoLibs, 0, PreDict({"total_count"}, 1), PostAB, Some(1)),
          SSCArgs(VariantsTwoLibs, 0, PreDict(PreReqKeys, 1),
                  <<PostSample("post_b", PostReqKeys \cup {"extra"}, 1, 0, None),
                    PostSample("post_a", PostReqKeys, 1, 0, None)>>, Some(1)),
          SSCArgs(VariantsTwoLibs, 0, PreDict(PreReqKeys, 1),
                  <<PostSample("count", PostReqKeys, 1, 0, None)>>, Some(1)),
          SSCArgs(VariantsTwoLibs, 0, [kind |-> "list"], PostAB, Some(1)),
          SSCArgs(VariantsTwoLibs, 0, PreTable({"library", "barcode"}, <<1, 1>>),
                  PostAB, Some(1)),
          SSCArgs(VariantsFull, RandScale, PreDict(PreReqKeys, 1), PostAB, Some(1))}

\* a table of pre-selection counts for exactly the variants of the table
SSCTableInputs ==
    {SSCArgs(VariantsTwoLibs, 0,
             PreTable({"library", "barcode", "count"}, <<1000, 1000>>),
             <<PostSample("post_a", PostReqKeys, 1000, 0, None)>>, Some(1))}

\* calls that run through
SSCSmallInputs ==
    {SSCArgs(VariantsTwoLibs, 0, PreDict(PreReqKeys, 1), PostAB, seed) :
        seed \in {None, Some(1)}}

SSCLargeInputs ==
    {SSCArgs(VariantsOneLib, RandScale \div 2, PreDict(PreReqKeys, 2),
             <<PostSample("post_a", PostReqKeys, 3, 1, Some(2))>>, Some(1)),
     SSCArgs(VariantsTwoLibs, RandScale, PreDict(PreReqKeys, 3), PostAB, None),
     SSCArgs(VariantsUneven, 0, PreDict(PreReqKeys, 2),
             <<PostSample("post_b", PostReqKeys, 1, 0, Some(1)),
               PostSample("post_a", PostReqKeys, 2, 1, None)>>, Some(1))}

SSCInputs ==
    SSCErrorInputs \cup SSCTableInputs \cup SSCSmallInputs \cup SSCLargeInputs

Gaussian(weight, mean, sd) == [weight |-> weight, mean |-> mean, sd |-> sd]

PSArgs(geneseq, seed, norm_weights) ==
    [geneseq |-> geneseq, seed |-> seed, wt_latent |-> 1,
     norm_weights |-> norm_weights, stop_effect |-> 0 - 10]

PSSmallInputs ==
    {PSArgs(GeneM, seed, <<Gaussian(RandScale, 0 - 1, 0)>>) : seed \in {None, Some(1)}}

PSLargeInputs ==
    {PSArgs(geneseq, Some(1),
            <<Gaussian(RandScale \div 2, 0 - 1, 0),
              Gaussian(RandScale - RandScale \div 2, 0 - 1, 0)>>) :
        geneseq \in {GeneMA, GeneMStop, GeneRagged}}
    \cup {PSArgs(GeneM, Some(1),
                 <<Gaussian(1, 0 - 2, 0), Gaussian(1, 0 - 2, 0)>>)}

PSInputs == PSSmallInputs \cup PSLargeInputs

\* the variants whose phenotype is asked for
PhenotypeQueries ==
    {<<>>,
     <<<<"M", 1, "A">>>>,
     <<<<"M", 1, "*">>>>,
     <<<<"M", 1, "A">>, <<"M", 1, "*">>>>,
     <<<<"M", 1, "M">>>>}

(***************************************************************************)
(* The caller.                                                             *)
(***************************************************************************)
Init ==
    /\ pc = "idle"
    /\ entry = "none"
    /\ args = NoLoc
    /\ rng = [g \in Gens |-> Ambient]
    /\ call = NewCall({})
    /\ loc = NoLoc
    /\ out = None
    /\ err = "none"

\* the call has returned or raised; the caller goes on
Return ==
    /\ pc \in {"done", "error"}
    /\ pc' = "idle"
    /\ entry' = "none"
    /\ args' = NoLoc
    /\ call' = NewCall({})
    /\ loc' = NoLoc
    /\ out' = None
    /\ err' = "none"
    /\ UNCHANGED rng

PSSteps ==
    \/ PS_MutEffect
    \/ PS_Return
    \/ \E v \in PhenotypeQueries : LatentPhenotype(v)
    \/ \E v \in PhenotypeQueries : ObservedPhenotype(v)

\* any sequence of calls of the three entry points
Next ==
    \/ \E a \in CVTSmallInputs : CallCVT(a)
    \/ CVTSteps
    \/ \E a \in SSCErrorInputs \cup SSCSmallInputs \cup SSCTableInputs : CallSSC(a)
    \/ SSCSteps
    \/ \E a \in PSSmallInputs : CallPS(a)
    \/ PSSteps
    \/ Return

Spec == Init /\ [][Next]_vars

\* one call of simulate_CodonVariantTable
NextCVT ==
    \/ \E a \in CVTInputs : CallCVT(a)
    \/ CVTSteps

SpecCVT == Init /\ [][NextCVT]_vars

\* one call of simulateSampleCounts
NextSSC ==
    \/ \E a \in SSCInputs : CallSSC(a)
    \/ SSCSteps

SpecSSC == Init /\ [][NextSSC]_vars

\* one construction of a PhenotypeSimulator and the use of the object
NextPS ==
    \/ \E a \in PSInputs : CallPS(a)
    \/ PSSteps

SpecPS == Init /\ [][NextPS]_vars

(***************************************************************************)
(* Properties.                                                             *)
(***************************************************************************)
InCVT == entry = "CVT" /\ loc # NoLoc

InSSC == entry = "SSC" /\ loc # NoLoc

\* the sum of the counts of the rows of one library and sample
CountSum(df, lib, sample) ==
    SumSeq([i \in DOMAIN df |->
               IF df[i].library = lib /\ df[i].sample = sample
               THEN df[i].count ELSE 0])

RowsOfLibrary(rows, lib) == {i \in DOMAIN rows : rows[i].library = lib}

\* C2: while simulate_CodonVariantTable generates, the barcodes emitted so
\* far for a library are pairwise distinct, and when it returns every
\* library has nvariants rows with nvariants distinct barcodes of length
\* bclen.
C2_BarcodesUnique ==
    InCVT =>
        /\ \A i, j \in DOMAIN loc.rows :
              (i # j /\ loc.rows[i].library = loc.rows[j].library)
                 => loc.rows[i].barcode # loc.rows[j].barcode
        /\ pc = "done" =>
              \A k \in DOMAIN args.library_specs :
                 LET mine == RowsOfLibrary(out[1], args.library_specs[k].lib)
                 IN /\ Cardinality(mine) = args.library_specs[k].nvariants
                    /\ Cardinality({out[1][i].barcode : i \in mine})
                          = args.library_specs[k].nvariants
                    /\ \A i \in mine : Len(out[1][i].barcode) = args.bclen

\* a library of two variants has been returned
C2_Witness ==
    /\ pc = "done"
    /\ entry = "CVT"
    /\ \E i, j \in DOMAIN out[1] :
          i # j /\ out[1][i].library = out[1][j].library

\* C3: a call with a seed never draws from a generator it has not seeded
\* itself before the draw, so what it returns does not depend on the state
\* the generators were in when it was called.
C3_SeededCallsAreDeterministic ==
    (entry # "none" /\ args.seed # None) => ~call.tainted

\* a seeded call has returned after drawing from both generators
C3_Witness ==
    /\ pc = "done"
    /\ entry = "CVT"
    /\ args.seed # None
    /\ call.drew = {"np", "py"}

ConfigurationErrors ==
    {"empty library_specs",
     "barcode too short for nvariants",
     "pre_sample_name is in post_samples",
     "post_samples lacks keys",
     "pre_sample lacks required keys",
     "pre_sample not DataFrame / dict"}

\* C4: a configuration error is raised before the call has made any random
\* draw.
C4_ConfigErrorsBeforeDraws ==
    (pc = "error" /\ err \in ConfigurationErrors) => call.drew = {}

\* C5: with variant_error_rate = 1.0, every variant that had exactly one
\* codon substitution has two or none after _add_variant_errors.
C5_ErrorChangesCountByOne ==
    (InSSC /\ pc = "ssc_errors" /\ args.variant_error_rate = RandScale) =>
        \A i \in 1..(loc.i - 1) :
            Len(args.variants.barcode_variant_df[i].codon_substitutions) = 1
               => Len(loc.barcode_variant_df[i].codon_substitutions) \in {0, 2}

\* C6: with a pre_sample table that gives a count for exactly the variants
\* of the variant table, simulateSampleCounts does not raise.
C6_TableCompletes ==
    (entry = "SSC" /\ args.pre_sample.kind = "DataFrame"
       /\ {"library", "barcode", "count"} \subseteq args.pre_sample.columns
       /\ ~args.pre_sample.libraries_differ
       /\ ~args.pre_sample.barcodes_differ)
    => pc # "error"

LibIndex(lib) ==
    CHOOSE l \in DOMAIN args.variants.libraries : args.variants.libraries[l] = lib

AminoAcids == Range(AAS_WITHSTOP)

StopAndAllOthersPresent ==
    (pc = "done" /\ entry = "PS") =>
        LET muteffects == out[1].muteffects
        IN \A p \in 1..(Len(args.geneseq) \div 3) :
              LET w == CODON_TO_AA(WtCodon(args.geneseq, p))
              IN w # "*" =>
                    /\ <<w, p, "*">> \in DOMAIN muteffects
                    /\ muteffects[<<w, p, "*">>] = args.stop_effect
                    /\ \A a \in AminoAcids \ {w} : <<w, p, a>> \in DOMAIN muteffects

\* C8: after construction the effect table has, for every codon position
\* whose wild-type amino acid is not a stop, the stop mutation with exactly
\* stop_effect and a key for every other amino acid; latentPhenotype and
\* observedPhenotype leave the table as it is.
C8_EffectTable ==
    /\ []StopAndAllOthersPresent
    /\ [][(pc = "done" /\ entry = "PS") => out' = out]_vars

\* a simulator over a gene of two codons has answered a phenotype query
C8_Witness ==
    /\ pc = "done"
    /\ entry = "PS"
    /\ args.geneseq = GeneMA
    /\ loc.ret # None
    /\ loc.ret[1] = "latent"

\* C9: a call whose seed is None seeds no generator.
C9_NoneSeedsNothing ==
    (entry # "none" /\ args.seed = None) => call.seeded = {}

Positions(substitutions) == [i \in DOMAIN substitutions |-> substitutions[i][2]]

\* C10 as claimed: the tokens of every generated variant are in strictly
\* increasing order of gene position.
C10_TokensIncreasing ==
    InCVT =>
        \A r \in DOMAIN loc.rows :
            LET pos == Positions(loc.rows[r].substitutions)
            IN \A i, j \in DOMAIN pos : i < j => pos[i] < pos[j]

CodonOf(igene) == (igene - 1) \div 3 + 1

\* C10 as amended: the tokens of one codon are adjacent and in strictly
\* increasing order of gene position, and no position occurs twice; the
\* codons follow each other in the order random.sample drew them.
C10_TokensIncreasingWithinCodon ==
    InCVT =>
        \A r \in DOMAIN loc.rows :
            LET pos == Positions(loc.rows[r].substitutions)
            IN \A i, j \in DOMAIN pos :
                  i < j =>
                     /\ pos[i] # pos[j]
                     /\ CodonOf(pos[i]) = CodonOf(pos[j]) =>
                           /\ pos[i] < pos[j]
                           /\ \A k \in i..j : CodonOf(pos[k]) = CodonOf(pos[i])

\* a variant whose second codon was mutated before its first, the first in
\* more than one nucleotide
C10_Witness ==
    /\ InCVT
    /\ \E r \in DOMAIN loc.rows :
          LET pos == Positions(loc.rows[r].substitutions)
          IN /\ Len(pos) >= 3
             /\ CodonOf(pos[1]) = 2
             /\ CodonOf(pos[Len(pos)]) = 1
             /\ CodonOf(pos[Len(pos) - 1]) = 1

\* C11: in a (library, sample) block of simulateSampleCounts one noise
\* factor is drawn for each variant of the block, and no factor is negative.
C11_NoiseFactorPerVariant ==
    (InSSC /\ loc.noise # <<>>) =>
        /\ loc.noise_draws = Len(loc.noise)
        /\ \A j \in DOMAIN loc.noise : loc.noise[j] >= 0

\* the running sums of the weights of norm_weights
RECURSIVE WeightUpTo(_, _)
WeightUpTo(norm_weights, k) ==
    IF k = 0 THEN 0 ELSE norm_weights[k].weight + WeightUpTo(norm_weights, k - 1)

DrawAboveAllWeights ==
    \A k \in DOMAIN args.norm_weights : WeightUpTo(args.norm_weights, k) < loc.u

\* C12: when the uniform draw is above every cumulative weight the first
\* component is chosen; otherwise the component chosen is the lowest one
\* whose cumulative weight is not below the draw.
C12_ComponentSelection ==
    (entry = "PS" /\ loc.i # 0) =>
        IF DrawAboveAllWeights
        THEN loc.i = 1
        ELSE /\ WeightUpTo(args.norm_weights, loc.i) >= loc.u
             /\ \A k \in 1..(loc.i - 1) : WeightUpTo(args.norm_weights, k) < loc.u

\* with two components whose weights sum to less than 1, a draw above both
\* cumulative weights has chosen the first
C12_Witness ==
    /\ entry = "PS"
    /\ loc.i = 1
    /\ Len(args.norm_weights) = 2
    /\ DrawAboveAllWeights

====
